---- MODULE Spec2Model ----
(***************************************************************************)
(* Triage conversation state machine of AMELIA (src/models.py,             *)
(* class SistemaTriagem) and the encounter table it writes.                *)
(*                                                                         *)
(* Text is modelled as a sequence of one-character strings, so that        *)
(* int(), str.lower(), the `in` substring test, '\n'.join and the          *)
(* f-string formatting are computed and not assumed.  Temperatures are     *)
(* integers in tenths of a degree (round(x, 1) keeps one decimal).         *)
(***************************************************************************)
EXTENDS Integers, Sequences, FiniteSets, Bags, TLC

VARIABLES
    conversas_ativas,   \* models.py:36  dict paciente_id -> conversa
    encounters,         \* rows of table 'encounter', in insertion order
    em_curso,           \* bag of the calls that began and have not returned,
                        \* each with the line it is at and its local variables
    chamada,            \* the call the last step belongs to:
                        \* [op, paciente_id, resposta]
    linha,              \* the source line that step began at
    sobrepostas,        \* how many calls began while another was in course
    retorno,            \* what the call returned or raised: [tipo, valor];
                        \* EmCurso when the step did not end the call
    session             \* the Flask session of one browser (app.py): the dict
                        \* its cookie holds

vars == <<conversas_ativas, encounters, em_curso, chamada, linha, sobrepostas,
          retorno, session>>

(***************************************************************************)
(* Bounds of the model.                                                    *)
(***************************************************************************)
\* etapa grows without limit when the commit keeps failing; it is capped here
MaxEtapa == 6
\* rows the encounter table may hold
MaxConsultas == 1
\* calls that may begin while another call is in course
MaxSobrepostas == 1

(***************************************************************************)
(* Input sets.                                                             *)
(***************************************************************************)
\* every patient id the session dict may be keyed by
TodosPacientes == {1, 2}
\* patients that act under Spec
Pacientes == {1}
\* readings coletar_sinais_vitais may draw (temperature in tenths of a degree)
Leituras ==
    { [temperatura |-> 370, batimentos |-> 70,
       pressao_sistolica |-> 120, pressao_diastolica |-> 80],
      [temperatura |-> 392, batimentos |-> 115,
       pressao_sistolica |-> 160, pressao_diastolica |-> 95] }
\* the reading drawn where the calls of several threads interleave
LeiturasDeRotina == { l \in Leituras : l.temperatura = 370 }
\* numbers random.randint(1, 999) may draw in gerar_senha_chamada
Numeros == {47}

(***************************************************************************)
(* Python values.                                                          *)
(***************************************************************************)
\* {} : the empty dict
DictVazio == [k \in {} |-> 0]
\* d.get(k, padrao)
Get(d, k, padrao) == IF k \in DOMAIN d THEN d[k] ELSE padrao
\* d[k] = v
Put(d, k, v) == [x \in (DOMAIN d) \cup {k} |-> IF x = k THEN v ELSE d[x]]
\* absence of a key in conversas_ativas
Ausente == [ausente |-> TRUE]

Digitos == <<"0", "1", "2", "3", "4", "5", "6", "7", "8", "9">>
Maiusculas == <<"A", "B", "C", "D", "E", "F", "G", "H", "I", "J", "K", "L", "M",
                "N", "O", "P", "Q", "R", "S", "T", "U", "V", "W", "X", "Y", "Z">>
Minusculas == <<"a", "b", "c", "d", "e", "f", "g", "h", "i", "j", "k", "l", "m",
                "n", "o", "p", "q", "r", "s", "t", "u", "v", "w", "x", "y", "z">>
\* the characters int() skips around the number: tab, line feed, vertical
\* tab, form feed, carriage return, space, U+0085 and U+00A0
Brancos == {" ", "\t", "\n", "\r", "\f", "", "", " "}
\* the characters str.strip() removes: those, and U+001C to U+001F
BrancosStr == Brancos \cup {"", "", "", ""}

EhDigito(c) == \E i \in 1..10 : Digitos[i] = c
DigitoVal(c) == (CHOOSE i \in 1..10 : Digitos[i] = c) - 1

RECURSIVE ValorDecimal(_)
ValorDecimal(s) ==
    IF s = <<>> THEN 0
    ELSE 10 * ValorDecimal(SubSeq(s, 1, Len(s) - 1)) + DigitoVal(s[Len(s)])

RECURSIVE TiraEsq(_, _)
TiraEsq(s, brancos) ==
    IF s # <<>> /\ s[1] \in brancos THEN TiraEsq(Tail(s), brancos) ELSE s
RECURSIVE TiraDir(_, _)
TiraDir(s, brancos) ==
    IF s # <<>> /\ s[Len(s)] \in brancos
    THEN TiraDir(SubSeq(s, 1, Len(s) - 1), brancos) ELSE s
\* str.lstrip(), str.rstrip(), str.strip()
StripEsq(s) == TiraEsq(s, BrancosStr)
StripDir(s) == TiraDir(s, BrancosStr)
strip(s) == StripDir(StripEsq(s))

\* the digits of d, its "_" dropped
RECURSIVE SemSublinhado(_)
SemSublinhado(d) ==
    IF d = <<>> THEN <<>>
    ELSE IF d[1] = "_" THEN SemSublinhado(Tail(d))
    ELSE <<d[1]>> \o SemSublinhado(Tail(d))

\* int(s) for a str s: [ok |-> FALSE] stands for the ValueError it raises.
\* Surrounding whitespace and one sign are accepted, then decimal digits,
\* which single "_" may separate.
py_int(s) ==
    LET t == TiraDir(TiraEsq(s, Brancos), Brancos)
        sinal == IF t # <<>> /\ t[1] \in {"+", "-"} THEN t[1] ELSE ""
        d == IF sinal = "" THEN t ELSE Tail(t)
        bem_formado ==
            /\ d # <<>>
            /\ EhDigito(d[1]) /\ EhDigito(d[Len(d)])
            /\ \A i \in 1..Len(d) : EhDigito(d[i]) \/ d[i] = "_"
            /\ \A i \in 1..(Len(d) - 1) : ~(d[i] = "_" /\ d[i + 1] = "_")
    IN IF bem_formado
       THEN LET v == ValorDecimal(SemSublinhado(d))
            IN [ok |-> TRUE, val |-> IF sinal = "-" THEN 0 - v ELSE v]
       ELSE [ok |-> FALSE, val |-> 0]

\* the capital letters of U+00C0 to U+00DE (U+00D7, the sign of
\* multiplication, is not one) and their small letters
MaiusculasLatin1 == <<"À", "Á", "Â", "Ã", "Ä", "Å", "Æ", "Ç", "È", "É",
                      "Ê", "Ë", "Ì", "Í", "Î", "Ï", "Ð", "Ñ", "Ò", "Ó",
                      "Ô", "Õ", "Ö", "Ø", "Ù", "Ú", "Û", "Ü", "Ý", "Þ">>
MinusculasLatin1 == <<"à", "á", "â", "ã", "ä", "å", "æ", "ç", "è", "é",
                      "ê", "ë", "ì", "í", "î", "ï", "ð", "ñ", "ò", "ó",
                      "ô", "õ", "ö", "ø", "ù", "ú", "û", "ü", "ý", "þ">>

\* c.lower() for a character c up to U+00FF
LowerChar(c) ==
    IF \E i \in 1..26 : Maiusculas[i] = c
    THEN Minusculas[CHOOSE i \in 1..26 : Maiusculas[i] = c]
    ELSE IF \E i \in 1..30 : MaiusculasLatin1[i] = c
    THEN MinusculasLatin1[CHOOSE i \in 1..30 : MaiusculasLatin1[i] = c]
    ELSE c
\* str.lower() of a text of characters up to U+00FF
lower(s) == [i \in 1..Len(s) |-> LowerChar(s[i])]

\* sub in s
Contem(sub, s) ==
    \E i \in 0..(Len(s) - Len(sub)) : SubSeq(s, i + 1, i + Len(sub)) = sub

\* sep.join(lista)
RECURSIVE join(_, _)
join(sep, lista) ==
    IF lista = <<>> THEN <<>>
    ELSE IF Len(lista) = 1 THEN lista[1]
    ELSE lista[1] \o sep \o join(sep, Tail(lista))

\* str(n) for n >= 0
RECURSIVE Decimal(_)
Decimal(n) ==
    IF n < 10 THEN <<Digitos[n + 1]>>
    ELSE Decimal(n \div 10) \o <<Digitos[(n % 10) + 1]>>
\* f"{numero:03d}" for numero >= 0: zero-padded to a width of at least 3
Formato03d(numero) ==
    LET d == Decimal(numero)
    IN IF Len(d) >= 3 THEN d
       ELSE [i \in 1..(3 - Len(d)) |-> "0"] \o d

(***************************************************************************)
(* SistemaTriagem: the question script and the scoring helpers.            *)
(***************************************************************************)
\* PERGUNTAS; each texto is abridged to its question sentence
PERGUNTAS ==
    << [id |-> 1, texto |-> "Qual e o seu principal sintoma ou queixa hoje?",
        tipo |-> "texto"],
       [id |-> 2, texto |-> "Ha quanto tempo voce esta sentindo isso?",
        tipo |-> "tempo"],
       [id |-> 3, texto |-> "Em uma escala de 0 a 10, qual e o seu nivel de dor?",
        tipo |-> "numero"],
       [id |-> 4, texto |-> "Voce esta com algum destes sintomas?",
        tipo |-> "sim_nao"] >>

\* the text returned when etapa reaches len(PERGUNTAS)
MensagemSinaisVitais == "Agora vou verificar seus sinais vitais..."

\* the dict iniciar_conversa stores
ConversaNova ==
    [etapa |-> 0, respostas |-> DictVazio,
     sintomas_coletados |-> <<>>, dados_vitais |-> DictVazio]

\* the readings coletar_sinais_vitais can return: each field within the
\* range of its random draw
coletar_sinais_vitais(leituras) ==
    { l \in leituras :
        /\ l.temperatura \in 360..395
        /\ l.batimentos \in 60..120
        /\ l.pressao_sistolica \in 90..160
        /\ l.pressao_diastolica \in 60..100 }

\* pontos accumulated by calcular_prioridade
pontos_prioridade(conversa) ==
    LET nivel_dor == Get(conversa.respostas, 3, <<"0">>)
        dor == py_int(nivel_dor)
        pontos_dor ==
            IF ~dor.ok THEN 0
            ELSE IF dor.val >= 8 THEN 40
            ELSE IF dor.val >= 5 THEN 25
            ELSE IF dor.val >= 3 THEN 10
            ELSE 0
        sintomas_graves == lower(Get(conversa.respostas, 4, <<>>))
        pontos_graves ==
            IF Contem(<<"s", "i", "m">>, sintomas_graves) THEN 50 ELSE 0
        tempo == lower(Get(conversa.respostas, 2, <<>>))
        pontos_tempo ==
            IF Contem(<<"h", "o", "r", "a">>, tempo) THEN 15 ELSE 0
        vitais == conversa.dados_vitais
        temperatura == Get(vitais, "temperatura", 365)
        pontos_temperatura ==
            IF temperatura >= 390 THEN 30
            ELSE IF temperatura >= 380 THEN 15
            ELSE 0
        batimentos == Get(vitais, "batimentos", 75)
        pontos_batimentos ==
            IF batimentos >= 110 \/ batimentos <= 50 THEN 25
            ELSE IF batimentos >= 100 \/ batimentos <= 60 THEN 10
            ELSE 0
        pressao_s == Get(vitais, "pressao_sistolica", 120)
        pontos_pressao ==
            IF pressao_s >= 160 \/ pressao_s <= 90 THEN 20 ELSE 0
    IN pontos_dor + pontos_graves + pontos_tempo
       + pontos_temperatura + pontos_batimentos + pontos_pressao

\* variant of calcular_prioridade: the thresholds are compared with >
calcular_prioridade_limite_estrito(conversa) ==
    LET pontos == pontos_prioridade(conversa)
    IN IF pontos > 80 THEN [prioridade |-> "URGENTE", emoji |-> "vermelho"]
       ELSE IF pontos > 50 THEN [prioridade |-> "ALTA", emoji |-> "laranja"]
       ELSE IF pontos > 25 THEN [prioridade |-> "MEDIA", emoji |-> "amarelo"]
       ELSE [prioridade |-> "BAIXA", emoji |-> "verde"]

\* the (prioridade, emoji) pair calcular_prioridade returns; the label
\* 'MÉDIA' is written "MEDIA" and each emoji is named by its colour
calcular_prioridade(conversa) ==
    LET pontos == pontos_prioridade(conversa)
    IN IF pontos >= 80 THEN [prioridade |-> "URGENTE", emoji |-> "vermelho"]
       ELSE IF pontos >= 50 THEN [prioridade |-> "ALTA", emoji |-> "laranja"]
       ELSE IF pontos >= 25 THEN [prioridade |-> "MEDIA", emoji |-> "amarelo"]
       ELSE [prioridade |-> "BAIXA", emoji |-> "verde"]

\* variant of gerar_senha_chamada: the number is formatted without padding
gerar_senha_chamada_sem_zeros(prioridade, numero) ==
    LET prefixo ==
            IF prioridade = "URGENTE" THEN "U"
            ELSE IF prioridade = "ALTA" THEN "A"
            ELSE IF prioridade = "MEDIA" THEN "M"
            ELSE IF prioridade = "BAIXA" THEN "B"
            ELSE "G"
    IN <<prefixo>> \o Decimal(numero)

\* gerar_senha_chamada, with the number random.randint(1, 999) drew
gerar_senha_chamada(prioridade, numero) ==
    LET prefixo ==
            IF prioridade = "URGENTE" THEN "U"
            ELSE IF prioridade = "ALTA" THEN "A"
            ELSE IF prioridade = "MEDIA" THEN "M"
            ELSE IF prioridade = "BAIXA" THEN "B"
            ELSE "G"
    IN <<prefixo>> \o Formato03d(numero)

estimar_tempo_espera(prioridade) ==
    IF prioridade = "URGENTE" THEN "Atendimento imediato"
    ELSE IF prioridade = "ALTA" THEN "Aproximadamente 15-30 minutos"
    ELSE IF prioridade = "MEDIA" THEN "Aproximadamente 30-60 minutos"
    ELSE IF prioridade = "BAIXA" THEN "Aproximadamente 1-2 horas"
    ELSE "Aguarde a chamada"

gerar_orientacoes(prioridade) ==
    IF prioridade = "URGENTE" THEN "Permaneca proximo ao balcao de atendimento."
    ELSE IF prioridade = "ALTA" THEN "Permaneca na sala de espera."
    ELSE "Aguarde confortavelmente na sala de espera."

\* return values: a str, the formatted resposta_final, a list, None,
\* or the exception that left the call
Texto(t) == [tipo |-> "str", valor |-> t]
Resumo(r) == [tipo |-> "resumo", valor |-> r]
Lista(l) == [tipo |-> "list", valor |-> l]
Nada == [tipo |-> "None", valor |-> "None"]
Excecao(e) == [tipo |-> "excecao", valor |-> e]

(***************************************************************************)
(* SistemaTriagem: the operations on conversas_ativas.                     *)
(*                                                                         *)
(* The web server runs each request on a thread of its own, and CPython    *)
(* lets another thread run where a function is entered and where a call    *)
(* returns.  A method is therefore a sequence of steps, one for each       *)
(* stretch of its code between two such points, and the steps of the calls *)
(* in em_curso interleave.  A step is named after its method and the line  *)
(* it begins at.                                                           *)
(***************************************************************************)
TemConversa(p) == conversas_ativas[p] # Ausente

\* conversa['respostas'].get(1, 'Não informado')
Queixa(conversa) ==
    Get(conversa.respostas, 1,
        <<"N", "a", "o", " ", "i", "n", "f", "o", "r", "m", "a", "d", "o">>)

\* the threads that serve requests at the same time
Threads == {1, 2}

\* em_curso holds one quadro for each call that has not returned; a call
\* needs a thread
HaThreadLivre == BagCardinality(em_curso) < Cardinality(Threads)

\* a call begins: it takes a thread, and is counted when another call is in
\* course
TomaThread ==
    /\ HaThreadLivre
    /\ em_curso # EmptyBag => sobrepostas < MaxSobrepostas
    /\ sobrepostas' = IF em_curso # EmptyBag THEN sobrepostas + 1 ELSE sobrepostas

\* the bag of one call
Um(quadro) == SetToBag({quadro})

\* the call has not returned
EmCurso == [tipo |-> "em_curso", valor |-> "None"]

Chamada(op, p, r) == [op |-> op, paciente_id |-> p, resposta |-> r]

\* The frame of a call: the call, the line it is at and its local variables.
\* ligada tells that the local variable conversa refers to the dict that is
\* conversas_ativas[paciente_id]; when that key is deleted or given another
\* dict the call keeps the old dict, which is then in the field conversa
\* (with two threads no other call can hold it).  etapa is the
\* conversa['etapa'] read at line 79 before len() is called, visto the
\* answers calcular_prioridade has read; the other fields are the local
\* variables of processar_resposta and of finalizar_triagem, and consulta
\* and consultas those of the staff routes of app.py.
Quadro(ch, l) ==
    [chamada |-> ch, linha |-> l, ligada |-> FALSE, conversa |-> Ausente,
     etapa_atual |-> 0, etapa |-> 0, visto |-> DictVazio,
     prioridade |-> "", emoji |-> "",
     senha |-> <<>>, vitais |-> DictVazio, nivel_dor |-> 0,
     nova_consulta |-> Ausente, queixa |-> <<>>,
     consulta |-> Ausente, consultas |-> <<>>]

\* the dict the local variable conversa of the call refers to
Conversa(quadro) ==
    IF quadro.ligada
    THEN conversas_ativas[quadro.chamada.paciente_id]
    ELSE quadro.conversa

Desligado(paciente_id, quadro) ==
    IF quadro.chamada.paciente_id = paciente_id /\ quadro.ligada
    THEN [quadro EXCEPT !.ligada = FALSE,
                        !.conversa = conversas_ativas[paciente_id]]
    ELSE quadro

\* the calls of em once conversas_ativas[paciente_id] is deleted or replaced
RECURSIVE Desligar(_, _)
Desligar(paciente_id, em) ==
    IF DOMAIN em = {}
    THEN EmptyBag
    ELSE LET quadro == CHOOSE q \in DOMAIN em : TRUE
             resto == [q \in DOMAIN em \ {quadro} |-> em[q]]
         IN Desligar(paciente_id, resto)
            (+) [q \in {Desligado(paciente_id, quadro)} |-> em[quadro]]

\* The ways a step ends; outros is the bag of the other calls in course.
\* The call goes on as novo, having written nothing:
Passa(outros, novo) ==
    /\ em_curso' = outros (+) Um(novo)
    /\ retorno' = EmCurso
    /\ UNCHANGED <<conversas_ativas, encounters, session>>

\* the call goes on as novo, the dict of its conversa now being conversa:
Grava(quadro, outros, novo, conversa) ==
    /\ IF quadro.ligada
       THEN /\ conversas_ativas' =
                  [conversas_ativas EXCEPT ![quadro.chamada.paciente_id] = conversa]
            /\ em_curso' = outros (+) Um(novo)
       ELSE /\ conversas_ativas' = conversas_ativas
            /\ em_curso' = outros (+) Um([novo EXCEPT !.conversa = conversa])
    /\ retorno' = EmCurso
    /\ UNCHANGED <<encounters, session>>

\* the call returns or raises r:
Termina(outros, r) ==
    /\ em_curso' = outros
    /\ retorno' = r
    /\ UNCHANGED <<conversas_ativas, encounters, session>>

\* variant of iniciar_conversa: setdefault, an existing conversa is kept
iniciar_conversa_preservando(paciente_id, outros) ==
    /\ conversas_ativas' =
           [conversas_ativas EXCEPT
              ![paciente_id] = IF @ = Ausente THEN ConversaNova ELSE @]
    /\ em_curso' = outros
    /\ retorno' = Texto(PERGUNTAS[1].texto)
    /\ UNCHANGED <<encounters, session>>

\* iniciar_conversa (lines 49-58) has no call inside: one step
iniciar_conversa(paciente_id, outros) ==
    /\ conversas_ativas' = [conversas_ativas EXCEPT ![paciente_id] = ConversaNova]
    /\ em_curso' = Desligar(paciente_id, outros)
    /\ retorno' = Texto(PERGUNTAS[1].texto)
    /\ UNCHANGED <<encounters, session>>

\* lines 71-73: the answer is saved under the id of question etapa_atual
salvar(conversa, etapa_atual, resposta) ==
    [conversa EXCEPT
       !.respostas = Put(@, PERGUNTAS[etapa_atual + 1].id, resposta),
       !.sintomas_coletados = Append(@, resposta)]

\* variant of avancar: etapa moves on only while questions remain
avancar_ate_fim(conversa) ==
    IF conversa.etapa < Len(PERGUNTAS)
    THEN [conversa EXCEPT !.etapa = @ + 1]
    ELSE conversa

\* variant of avancar: etapa is incremented twice
avancar_duas_vezes(conversa) ==
    [conversa EXCEPT !.etapa = @ + 2]

\* line 76: conversa['etapa'] += 1
avancar(conversa) ==
    [conversa EXCEPT !.etapa = @ + 1]

\* lines 60-70: the membership test, conversa and etapa_atual, up to the
\* call of len() at line 70
processar_resposta_63(quadro, outros) ==
    LET paciente_id == quadro.chamada.paciente_id
    IN IF ~TemConversa(paciente_id)
       THEN Passa(outros, [quadro EXCEPT !.linha = "L52"])
       ELSE Passa(outros, [quadro EXCEPT
                             !.linha = "L70", !.ligada = TRUE,
                             !.etapa_atual = conversas_ativas[paciente_id].etapa])

\* variant of processar_resposta_52: the conversa is started and the
\* submitted text is saved in it as the answer to the first question
processar_resposta_52_registrando(quadro, outros) ==
    LET paciente_id == quadro.chamada.paciente_id
    IN /\ conversas_ativas' =
             [conversas_ativas EXCEPT
                ![paciente_id] =
                    avancar(salvar(ConversaNova, 0, quadro.chamada.resposta))]
       /\ em_curso' = Desligar(paciente_id, outros)
       /\ retorno' = Texto(PERGUNTAS[2].texto)
       /\ UNCHANGED <<encounters, session>>

\* line 64: iniciar_conversa called by processar_resposta, and its result
\* returned
processar_resposta_52(quadro, outros) ==
    iniciar_conversa(quadro.chamada.paciente_id, outros)

\* lines 76-79: etapa moves on and is read again, up to the call of len() at
\* line 79
processar_resposta_76(quadro, outros) ==
    \E conversa \in {avancar(Conversa(quadro))} :
        Grava(quadro, outros,
              [quadro EXCEPT !.linha = "L79", !.etapa = conversa.etapa],
              conversa)

\* lines 70-73: the answer is saved while questions remain, up to the return
\* of append; with no question left the call goes straight on to line 76
processar_resposta_70(quadro, outros) ==
    IF quadro.etapa_atual < Len(PERGUNTAS)
    THEN Grava(quadro, outros, [quadro EXCEPT !.linha = "L76"],
               salvar(Conversa(quadro), quadro.etapa_atual,
                      quadro.chamada.resposta))
    ELSE processar_resposta_76(quadro, outros)

\* lines 79-87, from the return of len() at line 79: the next question is
\* returned (PERGUNTAS[conversa['etapa']] reads etapa again and raises
\* IndexError when it is past the script), or etapa is read again at line 83
\* and the vital-signs message is returned, or finalizar_triagem is called
processar_resposta_79(quadro, outros) ==
    IF quadro.etapa < Len(PERGUNTAS)
    THEN Termina(outros,
                 IF Conversa(quadro).etapa < Len(PERGUNTAS)
                 THEN Texto(PERGUNTAS[Conversa(quadro).etapa + 1].texto)
                 ELSE Excecao("IndexError"))
    ELSE IF Conversa(quadro).etapa = Len(PERGUNTAS)
    THEN Termina(outros, Texto(MensagemSinaisVitais))
    ELSE Passa(outros, [Quadro(quadro.chamada, "L174") EXCEPT
                          !.etapa_atual = quadro.etapa_atual])

\* line 174: conversa = conversas_ativas[paciente_id], which raises KeyError
\* when the key is not there; then coletar_sinais_vitais is called
finalizar_triagem_174(quadro, outros) ==
    IF TemConversa(quadro.chamada.paciente_id)
    THEN Passa(outros, [quadro EXCEPT !.linha = "L177", !.ligada = TRUE])
    ELSE Termina(outros, Excecao("KeyError"))

\* line 177: the reading is stored in the conversa; calcular_prioridade is
\* called
finalizar_triagem_177(quadro, outros, leitura) ==
    Grava(quadro, outros, [quadro EXCEPT !.linha = "L105"],
          [Conversa(quadro) EXCEPT !.dados_vitais = leitura])

\* what calcular_prioridade has seen of respostas after reading key k
Lido(visto, respostas, k) ==
    IF k \in DOMAIN respostas THEN Put(visto, k, respostas[k]) ELSE visto

\* calcular_prioridade reads the conversa at lines 105, 118, 123 and 128,
\* with calls between them
calcular_prioridade_105(quadro, outros) ==
    Passa(outros, [quadro EXCEPT
                     !.linha = "L118",
                     !.visto = Lido(@, Conversa(quadro).respostas, 3)])

calcular_prioridade_118(quadro, outros) ==
    Passa(outros, [quadro EXCEPT
                     !.linha = "L123",
                     !.visto = Lido(@, Conversa(quadro).respostas, 4)])

calcular_prioridade_123(quadro, outros) ==
    Passa(outros, [quadro EXCEPT
                     !.linha = "L128",
                     !.visto = Lido(@, Conversa(quadro).respostas, 2)])

\* line 128 on: vitais is read and the points are summed over what was read
calcular_prioridade_128(quadro, outros) ==
    \E pe \in {calcular_prioridade(
                  [respostas |-> quadro.visto,
                   dados_vitais |-> Conversa(quadro).dados_vitais])} :
        Passa(outros, [quadro EXCEPT
                         !.linha = "L183", !.visto = DictVazio,
                         !.prioridade = pe.prioridade, !.emoji = pe.emoji])

\* lines 187-192: conversa['respostas'].get(3, 0) through int(), 0 when
\* int() raises
nivel_dor(respostas) ==
    IF 3 \in DOMAIN respostas
    THEN IF py_int(respostas[3]).ok THEN py_int(respostas[3]).val ELSE 0
    ELSE 0

\* lines 183-192: the ticket is drawn, vitais and the pain answer are read
finalizar_triagem_183(quadro, outros, numero) ==
    Passa(outros, [quadro EXCEPT
                     !.linha = "L196",
                     !.senha = gerar_senha_chamada(quadro.prioridade, numero),
                     !.vitais = Conversa(quadro).dados_vitais,
                     !.nivel_dor = nivel_dor(Conversa(quadro).respostas)])

\* Encounter(...), lines 194-205; id and data are given by the INSERT
nova_consulta(paciente_id, sintomas, dor, vitais, prioridade, senha) ==
    [id |-> 0,
     patient_id |-> paciente_id,
     data |-> 0,
     sintomas |-> sintomas,
     nivel_dor |-> dor,
     temperatura |-> vitais.temperatura,
     batimentos |-> vitais.batimentos,
     pressao_sistolica |-> vitais.pressao_sistolica,
     pressao_diastolica |-> vitais.pressao_diastolica,
     prioridade |-> prioridade,
     senha_chamada |-> senha,
     status |-> "aguardando",
     observacoes |-> "None"]

\* lines 194-207: sintomas_coletados is joined, the row is built and added
\* to the database session
finalizar_triagem_196(quadro, outros) ==
    Passa(outros,
          [quadro EXCEPT
             !.linha = "L208",
             !.nova_consulta =
                 nova_consulta(quadro.chamada.paciente_id,
                               join(<<"\n">>, Conversa(quadro).sintomas_coletados),
                               quadro.nivel_dor, quadro.vitais,
                               quadro.prioridade, quadro.senha),
             !.prioridade = "", !.senha = <<>>, !.vitais = DictVazio,
             !.nivel_dor = 0])

\* the row as the INSERT of the commit stores it
Inserida(consulta) ==
    [consulta EXCEPT !.id = Len(encounters) + 1, !.data = Len(encounters) + 1]

\* variant of finalizar_triagem_208: a commit that raises is swallowed and
\* the call goes on to the summary
finalizar_triagem_208_engolindo(quadro, outros, commit_ok) ==
    /\ encounters' = IF commit_ok
                     THEN Append(encounters, Inserida(quadro.nova_consulta))
                     ELSE encounters
    /\ em_curso' = outros (+) Um([quadro EXCEPT !.linha = "L226"])
    /\ retorno' = EmCurso
    /\ UNCHANGED <<conversas_ativas, session>>

\* line 208: db.session.commit() writes the row and returns, or raises
finalizar_triagem_208(quadro, outros, commit_ok) ==
    IF commit_ok
    THEN /\ encounters' = Append(encounters, Inserida(quadro.nova_consulta))
         /\ em_curso' = outros (+) Um([quadro EXCEPT !.linha = "L226"])
         /\ retorno' = EmCurso
         /\ UNCHANGED <<conversas_ativas, session>>
    ELSE Termina(outros, Excecao("commit"))

\* lines 211-226: the f-string reads conversa['respostas'].get(1, ...), then
\* estimar_tempo_espera and gerar_orientacoes are called
finalizar_triagem_226(quadro, outros) ==
    Passa(outros, [quadro EXCEPT !.linha = "L238",
                                 !.queixa = Queixa(Conversa(quadro))])

\* resposta_final: the values the f-string interpolates
resposta_final(consulta, queixa, emoji) ==
    [emoji |-> emoji,
     prioridade |-> consulta.prioridade,
     senha |-> consulta.senha_chamada,
     temperatura |-> consulta.temperatura,
     batimentos |-> consulta.batimentos,
     pressao_sistolica |-> consulta.pressao_sistolica,
     pressao_diastolica |-> consulta.pressao_diastolica,
     nivel_dor |-> consulta.nivel_dor,
     queixa |-> queixa,
     tempo_espera |-> estimar_tempo_espera(consulta.prioridade),
     orientacoes |-> gerar_orientacoes(consulta.prioridade)]

\* variant of finalizar_triagem_238: the conversa is not deleted
finalizar_triagem_238_sem_limpar(quadro, outros) ==
    Termina(outros, Resumo(resposta_final(quadro.nova_consulta,
                                          quadro.queixa, quadro.emoji)))

\* lines 238-240: del conversas_ativas[paciente_id], which raises KeyError
\* when the key is not there, and the summary is returned
finalizar_triagem_238(quadro, outros) ==
    LET paciente_id == quadro.chamada.paciente_id
    IN IF TemConversa(paciente_id)
       THEN /\ conversas_ativas' =
                  [conversas_ativas EXCEPT ![paciente_id] = Ausente]
            /\ em_curso' = Desligar(paciente_id, outros)
            /\ retorno' = Resumo(resposta_final(quadro.nova_consulta,
                                                quadro.queixa, quadro.emoji))
            /\ UNCHANGED <<encounters, session>>
       ELSE Termina(outros, Excecao("KeyError"))

\* obter_historico (lines 263-268) has no call inside: one step
obter_historico(paciente_id, outros) ==
    Termina(outros, Lista(IF TemConversa(paciente_id)
                          THEN conversas_ativas[paciente_id].sintomas_coletados
                          ELSE <<>>))

\* variant of resetar_conversa: the whole dict is cleared
resetar_conversa_de_todos(paciente_id, outros) ==
    /\ conversas_ativas' = [p \in TodosPacientes |-> Ausente]
    /\ em_curso' = Desligar(1, Desligar(2, outros))
    /\ retorno' = Nada
    /\ UNCHANGED <<encounters, session>>

\* variant of resetar_conversa: del without the membership test, which
\* raises KeyError when the patient has no conversa
resetar_conversa_sem_teste(paciente_id, outros) ==
    /\ conversas_ativas' = [conversas_ativas EXCEPT ![paciente_id] = Ausente]
    /\ em_curso' = Desligar(paciente_id, outros)
    /\ retorno' = IF TemConversa(paciente_id) THEN Nada ELSE Excecao("KeyError")
    /\ UNCHANGED <<encounters, session>>

\* resetar_conversa (lines 270-274) has no call inside: one step
resetar_conversa(paciente_id, outros) ==
    /\ conversas_ativas' = [conversas_ativas EXCEPT ![paciente_id] = Ausente]
    /\ em_curso' = Desligar(paciente_id, outros)
    /\ retorno' = Nada
    /\ UNCHANGED <<encounters, session>>

(***************************************************************************)
(* The calls a client can make, and the steps of the calls in course.      *)
(***************************************************************************)
\* answer texts a patient may submit: "" or "9" when there is no conversa,
\* for the pain level and when the vital-signs message was the last reply,
\* "" for everything else
RespostasNaEtapa(p) ==
    IF TemConversa(p) => conversas_ativas[p].etapa \in {2, Len(PERGUNTAS)}
    THEN { <<>>, <<"9">> }
    ELSE { <<>> }

\* the texts typed at the clinic: the pain level is "" or "9", the answer on
\* serious symptoms "" or "sim", the rest is empty; with the routine
\* reading they give a row of each of the four tiers
RespostasNaClinica(p) ==
    IF TemConversa(p) /\ conversas_ativas[p].etapa = 2
    THEN { <<>>, <<"9">> }
    ELSE IF TemConversa(p) /\ conversas_ativas[p].etapa = 3
    THEN { <<>>, <<"s", "i", "m">> }
    ELSE { <<>> }

Iniciar(p) ==
    /\ TomaThread
    /\ chamada' = Chamada("iniciar_conversa", p, <<>>)
    /\ linha' = "L52"
    /\ iniciar_conversa(p, em_curso)

Processar(p, r) ==
    /\ TomaThread
    /\ TemConversa(p) => conversas_ativas[p].etapa < MaxEtapa
    /\ chamada' = Chamada("processar_resposta", p, r)
    /\ linha' = "L63"
    /\ processar_resposta_63(Quadro(chamada', "L63"), em_curso)

\* SistemaTriagem.finalizar_triagem called by itself
Finalizar(p) ==
    /\ TomaThread
    /\ chamada' = Chamada("finalizar_triagem", p, <<>>)
    /\ linha' = "L174"
    /\ finalizar_triagem_174(Quadro(chamada', "L174"), em_curso)

Historico(p) ==
    /\ TomaThread
    /\ chamada' = Chamada("obter_historico", p, <<>>)
    /\ linha' = "L266"
    /\ obter_historico(p, em_curso)

Resetar(p) ==
    /\ TomaThread
    /\ chamada' = Chamada("resetar_conversa", p, <<>>)
    /\ linha' = "L273"
    /\ resetar_conversa(p, em_curso)

\* the next step of the call quadro; leituras and numeros are what the
\* random draws may give, and the commit can write a row while the table
\* holds fewer than max
ContinuarCom(quadro, leituras, numeros, max) ==
    /\ chamada' = quadro.chamada
    /\ linha' = quadro.linha
    /\ UNCHANGED sobrepostas
    /\ \E outros \in {em_curso (-) Um(quadro)} :
          \/ quadro.linha = "L52" /\ processar_resposta_52(quadro, outros)
          \/ quadro.linha = "L70" /\ processar_resposta_70(quadro, outros)
          \/ quadro.linha = "L76" /\ processar_resposta_76(quadro, outros)
          \/ quadro.linha = "L79" /\ processar_resposta_79(quadro, outros)
          \/ quadro.linha = "L174" /\ finalizar_triagem_174(quadro, outros)
          \/ /\ quadro.linha = "L177"
             /\ \E leitura \in coletar_sinais_vitais(leituras) :
                   finalizar_triagem_177(quadro, outros, leitura)
          \/ quadro.linha = "L105" /\ calcular_prioridade_105(quadro, outros)
          \/ quadro.linha = "L118" /\ calcular_prioridade_118(quadro, outros)
          \/ quadro.linha = "L123" /\ calcular_prioridade_123(quadro, outros)
          \/ quadro.linha = "L128" /\ calcular_prioridade_128(quadro, outros)
          \/ /\ quadro.linha = "L183"
             /\ \E numero \in numeros :
                   finalizar_triagem_183(quadro, outros, numero)
          \/ quadro.linha = "L196" /\ finalizar_triagem_196(quadro, outros)
          \/ /\ quadro.linha = "L208"
             /\ \E commit_ok \in BOOLEAN :
                   /\ commit_ok => Len(encounters) < max
                   /\ finalizar_triagem_208(quadro, outros, commit_ok)
          \/ quadro.linha = "L226" /\ finalizar_triagem_226(quadro, outros)
          \/ quadro.linha = "L238" /\ finalizar_triagem_238(quadro, outros)

Continuar(quadro) == ContinuarCom(quadro, LeiturasDeRotina, Numeros, MaxConsultas)

\* the session of a browser that has sent no request yet: no key
SessaoVazia == DictVazio

Init ==
    /\ conversas_ativas = [p \in TodosPacientes |-> Ausente]
    /\ encounters = <<>>
    /\ em_curso = EmptyBag
    /\ chamada = Chamada("nenhuma", 0, <<>>)
    /\ linha = "L36"
    /\ sobrepostas = 0
    /\ retorno = Nada
    /\ session = SessaoVazia

Next ==
    \/ \E p \in Pacientes :
          \/ Iniciar(p)
          \/ \E r \in RespostasNaEtapa(p) : Processar(p, r)
          \/ Finalizar(p)
          \/ Historico(p)
          \/ Resetar(p)
    \/ \E quadro \in DOMAIN em_curso : Continuar(quadro)

Spec == Init /\ [][Next]_vars

(***************************************************************************)
(* Properties.  A step "serves" the call recorded in chamada'; linha' is   *)
(* the line the step began at.                                             *)
(***************************************************************************)
Serve(op, p) == chamada'.op = op /\ chamada'.paciente_id = p
\* the step begins the call op of patient p
Entra(op, p) ==
    /\ Serve(op, p)
    /\ linha' = CASE op = "processar_resposta" -> "L63"
                  [] op = "finalizar_triagem" -> "L174"
                  [] op = "iniciar_conversa" -> "L52"
                  [] op = "obter_historico" -> "L266"
                  [] op = "resetar_conversa" -> "L273"
                  [] OTHER -> "L36"
\* the step is the next step of the call in course quadro
Passo(quadro) ==
    /\ chamada' = quadro.chamada
    /\ linha' = quadro.linha
    /\ ~Entra(quadro.chamada.op, quadro.chamada.paciente_id)
    /\ \/ em_curso' = em_curso (-) Um(quadro)
       \/ /\ quadro.linha \in {"L52", "L238"}
          /\ em_curso' =
                Desligar(quadro.chamada.paciente_id, em_curso (-) Um(quadro))
       \/ \E novo \in DOMAIN em_curso' :
             /\ novo.chamada = quadro.chamada
             /\ novo.linha # quadro.linha
             /\ em_curso' = (em_curso (-) Um(quadro)) (+) Um(novo)
\* the call quadro goes on as novo
Segue(quadro, novo) ==
    /\ retorno' = EmCurso
    /\ novo.chamada = quadro.chamada
    /\ em_curso' = (em_curso (-) Um(quadro)) (+) Um(novo)
\* the conversa of the call novo once the step is done
ConversaDepois(novo) ==
    IF novo.ligada
    THEN conversas_ativas'[novo.chamada.paciente_id]
    ELSE novo.conversa
\* the call is a processar_resposta call that found etapa = len(PERGUNTAS)
QuintaChamada(quadro) ==
    /\ quadro.chamada.op = "processar_resposta"
    /\ quadro.etapa_atual = Len(PERGUNTAS)
Etapa(p) == conversas_ativas[p].etapa
TemVitais(c) == DOMAIN c.dados_vitais # {}
Niveis == {"URGENTE", "ALTA", "MEDIA", "BAIXA"}
\* the step appended exactly one row, for patient p
GravouConsulta(p) ==
    /\ Len(encounters') = Len(encounters) + 1
    /\ SubSeq(encounters', 1, Len(encounters)) = encounters
    /\ encounters'[Len(encounters')].patient_id = p
\* the row linha_tabela is the row the call built as consulta
RowDe(consulta, row) ==
    [row EXCEPT !.id = 0, !.data = 0, !.status = "aguardando"] = consulta
\* some row of the table is the row the call built as consulta
TemRow(consulta) ==
    \E i \in 1..Len(encounters) : RowDe(consulta, encounters[i])
\* the lines of finalizar_triagem and of calcular_prioridade a call can be at
LinhasDeFinalizacao ==
    {"L174", "L177", "L105", "L118", "L123", "L128", "L183", "L196", "L208",
     "L226", "L238"}

\* C1 as stated: the processar_resposta call that finds etapa =
\* len(PERGUNTAS), the (len(PERGUNTAS) + 1)-th after iniciar_conversa,
\* always ends by returning the summary, whatever the answers were.
C1_QuintaRespostaRetornaResumo ==
    [][\A quadro \in DOMAIN em_curso :
         (Passo(quadro) /\ QuintaChamada(quadro) /\ retorno' # EmCurso)
         => retorno'.tipo = "resumo"]_vars

\* C1 amended: that call always calls finalizar_triagem, whatever the answers
\* were: it saves nothing, returns neither a question nor the vital-signs
\* message, and finalizar_triagem, where the conversa is still there,
\* collects the vitals, computes prioridade and senha and commits.  The call
\* ends in one of four ways: the commit returns, the row with the computed
\* prioridade and senha is written, the summary carrying them is returned
\* and the conversa is removed; or the commit raises and the exception
\* reaches the caller instead of a summary, with no row written; or the
\* commit returns and writes the row but another call removed the conversa
\* meanwhile and KeyError reaches the caller; or another call removed the
\* conversa before finalizar_triagem read it and KeyError reaches the caller
\* with nothing collected and no row written.
C1_QuintaRespostaFinaliza ==
    [][\A quadro \in DOMAIN em_curso :
         (Passo(quadro) /\ QuintaChamada(quadro))
         => LET p == quadro.chamada.paciente_id
            IN /\ quadro.linha \in {"L70", "L79"} \cup LinhasDeFinalizacao
               /\ quadro.linha = "L70"
                  => /\ encounters' = encounters
                     /\ \E novo \in DOMAIN em_curso' :
                           /\ Segue(quadro, novo)
                           /\ novo.linha = "L79"
                           /\ ConversaDepois(novo).respostas =
                                 Conversa(quadro).respostas
                           /\ ConversaDepois(novo).sintomas_coletados =
                                 Conversa(quadro).sintomas_coletados
               /\ quadro.linha = "L79"
                  => /\ encounters' = encounters
                     /\ conversas_ativas' = conversas_ativas
                     /\ \E novo \in DOMAIN em_curso' :
                           Segue(quadro, novo) /\ novo.linha = "L174"
               /\ quadro.linha = "L174"
                  => /\ encounters' = encounters
                     /\ conversas_ativas' = conversas_ativas
                     /\ IF TemConversa(p)
                        THEN \E novo \in DOMAIN em_curso' :
                                Segue(quadro, novo) /\ novo.linha = "L177"
                        ELSE retorno' = Excecao("KeyError")
               /\ quadro.linha = "L177"
                  => \E novo \in DOMAIN em_curso' :
                        /\ Segue(quadro, novo)
                        /\ TemVitais(ConversaDepois(novo))
               /\ quadro.linha \in LinhasDeFinalizacao \ {"L174", "L208", "L238"}
                  => /\ encounters' = encounters
                     /\ \E novo \in DOMAIN em_curso' :
                           /\ Segue(quadro, novo)
                           /\ novo.linha \in LinhasDeFinalizacao
               /\ quadro.linha = "L128"
                  => \E novo \in DOMAIN em_curso' :
                        Segue(quadro, novo) /\ novo.prioridade \in Niveis
               /\ quadro.linha = "L183"
                  => \E novo \in DOMAIN em_curso' :
                        /\ Segue(quadro, novo)
                        /\ novo.prioridade = quadro.prioridade
                        /\ Len(novo.senha) = 4
               /\ quadro.linha = "L196"
                  => \E novo \in DOMAIN em_curso' :
                        /\ Segue(quadro, novo)
                        /\ novo.linha = "L208"
                        /\ novo.nova_consulta.prioridade = quadro.prioridade
                        /\ novo.nova_consulta.senha_chamada = quadro.senha
               /\ quadro.linha = "L208"
                  => \/ /\ GravouConsulta(p)
                        /\ RowDe(quadro.nova_consulta,
                                 encounters'[Len(encounters')])
                        /\ conversas_ativas' = conversas_ativas
                        /\ \E novo \in DOMAIN em_curso' :
                              Segue(quadro, novo) /\ novo.linha = "L226"
                     \/ /\ retorno' = Excecao("commit")
                        /\ encounters' = encounters
                        /\ conversas_ativas' = conversas_ativas
               /\ quadro.linha = "L238"
                  => /\ encounters' = encounters
                     /\ TemRow(quadro.nova_consulta)
                     /\ IF TemConversa(p)
                        THEN /\ retorno'.tipo = "resumo"
                             /\ retorno'.valor.prioridade =
                                   quadro.nova_consulta.prioridade
                             /\ retorno'.valor.senha =
                                   quadro.nova_consulta.senha_chamada
                             /\ conversas_ativas'[p] = Ausente
                        ELSE /\ retorno' = Excecao("KeyError")
                             /\ conversas_ativas' = conversas_ativas]_vars

\* C1 witness: a triage answered with empty strings only has been finalized
\* by the call that found etapa = len(PERGUNTAS)
C1_Witness ==
    /\ chamada = Chamada("processar_resposta", 1, <<>>)
    /\ linha = "L238"
    /\ retorno.tipo = "resumo"
    /\ Len(encounters) = 1
    /\ encounters[1].sintomas = <<"\n", "\n", "\n">>
    /\ sobrepostas = 0

\* C2: the processar_resposta call that brings etapa to exactly
\* len(PERGUNTAS) (the conversa['etapa'] it reads at line 79, just after its
\* own increment, is len(PERGUNTAS)) returns the vital-signs message and
\* calls no finalizar_triagem; a processar_resposta call goes on to
\* finalizar_triagem only when it found etapa >= len(PERGUNTAS), and its
\* text is saved nowhere.
C2_PausaAntesDeFinalizar ==
    [][\A quadro \in DOMAIN em_curso :
         (Passo(quadro) /\ quadro.chamada.op = "processar_resposta"
            /\ quadro.linha = "L79")
         => /\ quadro.etapa = Len(PERGUNTAS)
               => /\ retorno' = Texto(MensagemSinaisVitais)
                  /\ conversas_ativas' = conversas_ativas
                  /\ encounters' = encounters
            /\ retorno' = EmCurso
               => quadro.etapa_atual >= Len(PERGUNTAS)]_vars

\* C3 as stated: a processar_resposta call begun for the patient whose
\* summary was just returned changes nothing and returns that summary again.
C3_AvancoAposFimSemEfeito ==
    [][\A quadro \in DOMAIN em_curso, p \in TodosPacientes :
         (Passo(quadro) /\ quadro.chamada.op = "processar_resposta"
            /\ quadro.chamada.paciente_id = p /\ quadro.linha = "L52"
            /\ chamada = quadro.chamada /\ linha = "L63"
            /\ ~TemConversa(p)
            /\ \E i \in 1..Len(encounters) : encounters[i].patient_id = p)
         => /\ conversas_ativas' = conversas_ativas
            /\ encounters' = encounters
            /\ retorno'.tipo = "resumo"]_vars

\* C3 amended: a processar_resposta call begun for the patient whose summary
\* was just returned finds no conversa, and a processar_resposta call that
\* found no conversa starts a new one: it writes no row, leaves the patient
\* with a fresh conversa at etapa 0 and returns the first question.
C3_AvancoAposFimReinicia ==
    [][\A p \in TodosPacientes :
         /\ (retorno.tipo = "resumo" /\ chamada.paciente_id = p
               /\ Entra("processar_resposta", p))
            => /\ ~TemConversa(p)
               /\ encounters' = encounters
               /\ conversas_ativas' = conversas_ativas
               /\ \E novo \in DOMAIN em_curso' :
                     /\ novo = Quadro(chamada', "L52")
                     /\ em_curso' = em_curso (+) Um(novo)
         /\ \A quadro \in DOMAIN em_curso :
               (Passo(quadro) /\ quadro.chamada.op = "processar_resposta"
                  /\ quadro.chamada.paciente_id = p /\ quadro.linha = "L52")
               => /\ encounters' = encounters
                  /\ conversas_ativas'[p] # Ausente
                  /\ conversas_ativas'[p].etapa = 0
                  /\ DOMAIN conversas_ativas'[p].respostas = {}
                  /\ conversas_ativas'[p].sintomas_coletados = <<>>
                  /\ retorno' = Texto(PERGUNTAS[1].texto)]_vars

\* C3 witness: a conversa started by processar_resposta for the patient
\* whose triage was finalized, one row written
C3_Witness ==
    /\ chamada.op = "processar_resposta" /\ linha = "L52"
    /\ Len(encounters) = 1 /\ encounters[1].patient_id = 1
    /\ TemConversa(1) /\ Etapa(1) = 0
    /\ retorno = Texto(PERGUNTAS[1].texto)

\* the step gave patient p another conversa (line 52) or none (lines 238
\* and 274)
Trocou(p) ==
    /\ chamada'.paciente_id = p
    /\ linha' \in {"L52", "L238", "L273"}

\* C4: coletar_sinais_vitais runs at most once per conversa, and the vitals
\* of a conversa, once collected, stay as they are while that conversa lives.
C4_SinaisVitaisUmaVez ==
    [][/\ \A quadro \in DOMAIN em_curso :
            (Passo(quadro) /\ quadro.linha = "L177")
            => ~TemVitais(Conversa(quadro))
       /\ \A p \in TodosPacientes :
            (TemConversa(p) /\ TemVitais(conversas_ativas[p])
               /\ conversas_ativas'[p] # Ausente /\ ~Trocou(p))
            => conversas_ativas'[p].dados_vitais =
                   conversas_ativas[p].dados_vitais]_vars

\* C5: when the commit raises during finalizar_triagem the exception reaches
\* the caller, no row is written and the conversa is not discarded: the
\* commit that raises changes nothing in conversas_ativas, and the conversa
\* the call finalized is there as finalizar_triagem left it, with its vitals
\* (unless another call has removed or replaced it meanwhile).  A summary is
\* returned only by a call whose row was written.
C5_FalhaNoCommit ==
    [][\A quadro \in DOMAIN em_curso :
         Passo(quadro)
         => LET p == quadro.chamada.paciente_id
            IN /\ (quadro.linha = "L208" /\ encounters' = encounters)
                  => /\ retorno' = Excecao("commit")
                     /\ conversas_ativas' = conversas_ativas
                     /\ em_curso' = em_curso (-) Um(quadro)
                     /\ TemVitais(Conversa(quadro))
                     /\ quadro.ligada
                        => /\ TemConversa(p)
                           /\ TemVitais(conversas_ativas'[p])
               /\ retorno' = Excecao("commit")
                  => quadro.linha = "L208" /\ encounters' = encounters
               /\ retorno'.tipo = "resumo"
                  => TemRow(quadro.nova_consulta)]_vars

\* C5 witness: the commit of the call that found etapa = len(PERGUNTAS) has
\* just failed
C5_Witness ==
    /\ chamada.op = "processar_resposta" /\ linha = "L208"
    /\ retorno = Excecao("commit")
    /\ encounters = <<>>
    /\ em_curso = EmptyBag
    /\ TemConversa(1) /\ Etapa(1) = Len(PERGUNTAS) + 1
    /\ TemVitais(conversas_ativas[1])

Min(a, b) == IF a <= b THEN a ELSE b

\* the step ran line 76 for the conversa of patient p that is in
\* conversas_ativas
Avancou(p) ==
    \E quadro \in DOMAIN em_curso :
        /\ Passo(quadro)
        /\ quadro.chamada.paciente_id = p
        /\ quadro.ligada
        /\ \/ quadro.linha = "L76"
           \/ quadro.linha = "L70" /\ quadro.etapa_atual >= Len(PERGUNTAS)

\* C6: while a conversa exists its etapa changes only by +1, in the step of
\* a processar_resposta call for its patient that runs line 76, once per
\* call, and in no other step; it is never skipped over or lowered.  The
\* explicit resets are the calls that replace or drop the conversa:
\* iniciar_conversa and resetar_conversa.
C6_EtapaMaisUm ==
    [][/\ \A p \in TodosPacientes :
            (TemConversa(p) /\ conversas_ativas'[p] # Ausente /\ ~Trocou(p))
            => IF Avancou(p)
               THEN conversas_ativas'[p].etapa = Etapa(p) + 1
               ELSE conversas_ativas'[p].etapa = Etapa(p)
       /\ \A quadro \in DOMAIN em_curso :
            (Passo(quadro) /\ quadro.chamada.op = "processar_resposta")
            => /\ quadro.linha = "L70"
                  => \E novo \in DOMAIN em_curso' :
                        /\ Segue(quadro, novo)
                        /\ novo.linha = IF quadro.etapa_atual < Len(PERGUNTAS)
                                        THEN "L76" ELSE "L79"
               /\ quadro.linha = "L76"
                  => \E novo \in DOMAIN em_curso' :
                        /\ Segue(quadro, novo)
                        /\ novo.linha = "L79"
                        /\ ConversaDepois(novo).etapa =
                              Conversa(quadro).etapa + 1
               /\ quadro.linha = "L79"
                  => \A novo \in DOMAIN em_curso' :
                        Segue(quadro, novo) => novo.linha = "L174"
               /\ quadro.linha \in LinhasDeFinalizacao \ {"L174"}
                  => \A novo \in DOMAIN em_curso' :
                        Segue(quadro, novo)
                        => /\ novo.linha \in LinhasDeFinalizacao
                           /\ ConversaDepois(novo).etapa =
                                 Conversa(quadro).etapa]_vars

\* C6 witness: etapa went past the script, one call at a time
C6_Witness ==
    /\ chamada.op = "processar_resposta" /\ linha = "L70"
    /\ TemConversa(1) /\ Etapa(1) = Len(PERGUNTAS) + 2
    /\ sobrepostas = 0

\* C7: with no call in course, respostas holds exactly the question ids
\* 1..min(etapa, len(PERGUNTAS)) and sintomas_coletados has that many
\* elements.
C7_RespostasAteEtapa ==
    \A p \in TodosPacientes :
        (TemConversa(p) /\ em_curso = EmptyBag)
        => /\ DOMAIN conversas_ativas[p].respostas =
                  1..Min(Etapa(p), Len(PERGUNTAS))
           /\ Len(conversas_ativas[p].sintomas_coletados) =
                  Min(Etapa(p), Len(PERGUNTAS))

\* C8: with no call in course, a conversa whose etapa is below
\* len(PERGUNTAS) has no vitals; a conversa that has vitals has every
\* scripted question answered.
C8_SemVitaisAntesDoFim ==
    \A p \in TodosPacientes :
        (TemConversa(p) /\ em_curso = EmptyBag)
        => /\ Etapa(p) < Len(PERGUNTAS) => ~TemVitais(conversas_ativas[p])
           /\ TemVitais(conversas_ativas[p])
              => /\ Etapa(p) >= Len(PERGUNTAS)
                 /\ DOMAIN conversas_ativas[p].respostas = 1..Len(PERGUNTAS)

\* C9: iniciar_conversa(p) leaves p with a conversa at etapa 0 with no
\* answers, no collected symptoms and no vitals, and returns the first
\* question, whether p had a conversa (at any etapa, with or without vitals)
\* or none; it writes no row.
C9_IniciarConversaNova ==
    [][\A p \in TodosPacientes :
         Serve("iniciar_conversa", p)
         => /\ conversas_ativas'[p] # Ausente
            /\ conversas_ativas'[p].etapa = 0
            /\ DOMAIN conversas_ativas'[p].respostas = {}
            /\ conversas_ativas'[p].sintomas_coletados = <<>>
            /\ DOMAIN conversas_ativas'[p].dados_vitais = {}
            /\ retorno' = Texto(PERGUNTAS[1].texto)
            /\ encounters' = encounters]_vars

\* C9 witness: a fresh conversa left by iniciar_conversa
C9_Witness ==
    /\ chamada.op = "iniciar_conversa"
    /\ TemConversa(1) /\ Etapa(1) = 0
    /\ conversas_ativas[1].sintomas_coletados = <<>>
    /\ retorno = Texto(PERGUNTAS[1].texto)

\* C10: processar_resposta(p, x) for a patient with no conversa starts one:
\* the call that finds none goes on to iniciar_conversa changing nothing,
\* and when that has run p is left at etapa 0 with no answers, x is recorded
\* nowhere, the first question is returned, nothing is raised and no row is
\* written.
C10_ProcessarSemConversaInicia ==
    [][\A p \in TodosPacientes :
         /\ (~TemConversa(p) /\ Entra("processar_resposta", p))
            => /\ conversas_ativas' = conversas_ativas
               /\ encounters' = encounters
               /\ retorno' = EmCurso
               /\ em_curso' = em_curso (+) Um(Quadro(chamada', "L52"))
         /\ (TemConversa(p) /\ Entra("processar_resposta", p))
            => \E novo \in DOMAIN em_curso' :
                  /\ em_curso' = em_curso (+) Um(novo)
                  /\ novo.linha = "L70"
         /\ \A quadro \in DOMAIN em_curso :
               (Passo(quadro) /\ quadro.chamada.op = "processar_resposta"
                  /\ quadro.chamada.paciente_id = p /\ quadro.linha = "L52")
               => /\ conversas_ativas'[p] # Ausente
                  /\ conversas_ativas'[p].etapa = 0
                  /\ DOMAIN conversas_ativas'[p].respostas = {}
                  /\ conversas_ativas'[p].sintomas_coletados = <<>>
                  /\ DOMAIN conversas_ativas'[p].dados_vitais = {}
                  /\ retorno' = Texto(PERGUNTAS[1].texto)
                  /\ encounters' = encounters]_vars

\* C10 witness: the text "9" was submitted and a conversa at etapa 0 resulted
C10_Witness ==
    /\ chamada = Chamada("processar_resposta", 1, <<"9">>) /\ linha = "L52"
    /\ TemConversa(1) /\ Etapa(1) = 0
    /\ conversas_ativas[1].sintomas_coletados = <<>>
    /\ retorno = Texto(PERGUNTAS[1].texto)

\* C11: resetar_conversa(p) always leaves p without a conversa, raises
\* nothing and touches nothing else; called for a patient who has none (as
\* a second resetar_conversa is) it leaves conversas_ativas as it was.
C11_ResetarIdempotente ==
    [][\A p \in TodosPacientes :
         Serve("resetar_conversa", p)
         => /\ conversas_ativas'[p] = Ausente
            /\ \A q \in TodosPacientes \ {p} :
                  conversas_ativas'[q] = conversas_ativas[q]
            /\ retorno' = Nada
            /\ encounters' = encounters
            /\ ~TemConversa(p) => conversas_ativas' = conversas_ativas]_vars

\* C11 witness: resetar_conversa served for a patient who had completed a
\* triage and has no conversa
C11_Witness ==
    /\ chamada.op = "resetar_conversa"
    /\ retorno = Nada
    /\ ~TemConversa(1)
    /\ Len(encounters) = 1

\* C12: obter_historico(p), called with no other call in course, returns
\* sintomas_coletados, and that list holds one text for each question
\* answered: after k answered questions (etapa = k, up to len(PERGUNTAS))
\* it has k elements, the answers saved in respostas in the order of their
\* questions.
C12_HistoricoEmOrdem ==
    [][\A p \in TodosPacientes :
         (Serve("obter_historico", p) /\ TemConversa(p) /\ em_curso = EmptyBag)
         => /\ retorno' = Lista(conversas_ativas[p].sintomas_coletados)
            /\ Len(retorno'.valor) = Min(Etapa(p), Len(PERGUNTAS))
            /\ \A k \in 1..Len(retorno'.valor) :
                  /\ k \in DOMAIN conversas_ativas[p].respostas
                  /\ retorno'.valor[k] = conversas_ativas[p].respostas[k]
            /\ conversas_ativas' = conversas_ativas]_vars

(***************************************************************************)
(* calcular_prioridade applied to drawn answers and vitals.                *)
(***************************************************************************)
\* answers to questions 2, 3 and 4 and vitals the scorer is applied to
RespostasTempo == { <<"2", " ", "d", "i", "a", "s">>,
                    <<"2", " ", "H", "O", "R", "A", "S">> }
RespostasDor ==
    { <<>>, <<"0">>, <<"2">>, <<"3">>, <<"4">>, <<"5">>, <<"7">>, <<"8">>,
      <<"9">>, <<"1", "0">>, <<"-", "9">>, <<" ", "9", " ">>,
      <<"\f", "9">>, <<"9", "">>, <<"m", "u", "i", "t", "a">> }
RespostasGraves == { <<>>, <<"n", "a", "o">>, <<"s", "i", "m">>,
                     <<"S", "I", "M", "!">>, <<"S", "Í", "M">> }
Temperaturas == {360, 370, 379, 380, 389, 390, 392, 395}
Batimentos == {50, 51, 60, 61, 70, 99, 100, 109, 110, 120}
Sistolicas == {90, 91, 120, 159, 160}

\* conversas as finalizar_triagem hands them to calcular_prioridade, and
\* the conversa with no answers and no vitals
ConversasParaPontuar ==
    { [etapa |-> Len(PERGUNTAS) + 1,
       respostas |-> << <<"d", "o", "r">>, q2, q3, q4 >>,
       sintomas_coletados |-> << <<"d", "o", "r">>, q2, q3, q4 >>,
       dados_vitais |-> [temperatura |-> t, batimentos |-> b,
                         pressao_sistolica |-> ps, pressao_diastolica |-> 80]] :
        q2 \in RespostasTempo, q3 \in RespostasDor, q4 \in RespostasGraves,
        t \in Temperaturas, b \in Batimentos, ps \in Sistolicas }
    \cup { [ConversaNova EXCEPT !.etapa = Len(PERGUNTAS) + 1] }

InitPrioridade ==
    /\ \E c \in ConversasParaPontuar :
          conversas_ativas = [p \in TodosPacientes |-> IF p = 1 THEN c ELSE Ausente]
    /\ encounters = <<>>
    /\ em_curso = EmptyBag
    /\ chamada = Chamada("nenhuma", 0, <<>>)
    /\ linha = "L36"
    /\ sobrepostas = 0
    /\ retorno = Nada
    /\ session = SessaoVazia

CalcularPrioridade ==
    /\ chamada.op = "nenhuma"
    /\ chamada' = Chamada("calcular_prioridade", 1, <<>>)
    /\ linha' = "L105"
    /\ retorno' = [tipo |-> "tuple",
                   valor |-> calcular_prioridade(conversas_ativas[1])]
    /\ UNCHANGED <<conversas_ativas, encounters, em_curso, sobrepostas,
                   session>>

SpecPrioridade == InitPrioridade /\ [][CalcularPrioridade]_vars

\* the scoring table of the specification, one independent contribution
\* per signal, and its thresholds
TabelaDor(q3) ==
    LET d == py_int(q3)
    IN IF ~d.ok THEN 0
       ELSE IF d.val >= 8 THEN 40
       ELSE IF d.val \in 5..7 THEN 25
       ELSE IF d.val \in 3..4 THEN 10
       ELSE 0
TabelaGraves(q4) == IF Contem(<<"s", "i", "m">>, lower(q4)) THEN 50 ELSE 0
TabelaTempo(q2) == IF Contem(<<"h", "o", "r", "a">>, lower(q2)) THEN 15 ELSE 0
TabelaTemperatura(t) ==
    IF t >= 390 THEN 30 ELSE IF t \in 380..389 THEN 15 ELSE 0
TabelaBatimentos(b) ==
    IF b >= 110 \/ b <= 50 THEN 25
    ELSE IF b \in 100..109 \/ b \in 51..60 THEN 10
    ELSE 0
TabelaPressao(ps) == IF ps >= 160 \/ ps <= 90 THEN 20 ELSE 0
TabelaTotal(c) ==
    (IF 3 \in DOMAIN c.respostas THEN TabelaDor(c.respostas[3]) ELSE 0)
    + (IF 4 \in DOMAIN c.respostas THEN TabelaGraves(c.respostas[4]) ELSE 0)
    + (IF 2 \in DOMAIN c.respostas THEN TabelaTempo(c.respostas[2]) ELSE 0)
    + (IF TemVitais(c)
       THEN TabelaTemperatura(c.dados_vitais.temperatura)
            + TabelaBatimentos(c.dados_vitais.batimentos)
            + TabelaPressao(c.dados_vitais.pressao_sistolica)
       ELSE 0)
TabelaNivel(total) ==
    IF total >= 80 THEN "URGENTE"
    ELSE IF total >= 50 THEN "ALTA"
    ELSE IF total >= 25 THEN "MEDIA"
    ELSE "BAIXA"

\* C13: for every drawn combination of answers and vitals calcular_prioridade
\* returns the tier the scoring table gives: the independent contributions
\* summed, then thresholded at 80, 50 and 25; an unparseable pain level
\* contributes 0 and raises nothing.
C13_PrioridadeSegueTabela ==
    retorno.tipo = "tuple"
    => retorno.valor.prioridade = TabelaNivel(TabelaTotal(conversas_ativas[1]))

\* C13 witness: pain "9", "sim" and 39.2 degrees give 40 + 50 + 30 = 120,
\* URGENTE
C13_Witness ==
    /\ retorno.tipo = "tuple"
    /\ DOMAIN conversas_ativas[1].respostas = 1..Len(PERGUNTAS)
    /\ TemVitais(conversas_ativas[1])
    /\ conversas_ativas[1].respostas[2] = <<"2", " ", "d", "i", "a", "s">>
    /\ conversas_ativas[1].respostas[3] = <<"9">>
    /\ conversas_ativas[1].respostas[4] = <<"s", "i", "m">>
    /\ conversas_ativas[1].dados_vitais =
          [temperatura |-> 392, batimentos |-> 70,
           pressao_sistolica |-> 120, pressao_diastolica |-> 80]
    /\ TabelaTotal(conversas_ativas[1]) = 120
    /\ retorno.valor.prioridade = "URGENTE"

(***************************************************************************)
(* finalizar_triagem applied to drawn conversas that await their vitals,   *)
(* the call that gave the fourth answer having just returned,              *)
(* with ticket numbers of one, two and three digits from the range of      *)
(* random.randint(1, 999).                                                 *)
(***************************************************************************)
NumerosSenha == {1, 9, 10, 47, 99, 100, 999}

\* conversas with the four questions answered (etapa = len(PERGUNTAS))
ConversasAguardandoVitais ==
    { [etapa |-> Len(PERGUNTAS),
       respostas |-> << <<"d", "o", "r">>, <<"2", " ", "d", "i", "a", "s">>, q3, q4 >>,
       sintomas_coletados |->
           << <<"d", "o", "r">>, <<"2", " ", "d", "i", "a", "s">>, q3, q4 >>,
       dados_vitais |-> DictVazio] :
        q3 \in { <<>>, <<"9">>, <<"\f", "9">>, <<"1", "1">>, <<"-", "1">> },
        q4 \in { <<"n", "a", "o">>, <<"s", "i", "m">> } }

InitFinalizacao ==
    /\ \E c \in ConversasAguardandoVitais :
          conversas_ativas = [p \in TodosPacientes |-> IF p = 1 THEN c ELSE Ausente]
    /\ encounters = <<>>
    /\ em_curso = EmptyBag
    /\ chamada = Chamada("processar_resposta", 1, conversas_ativas[1].respostas[4])
    /\ linha = "L79"
    /\ sobrepostas = 0
    /\ retorno = Texto(MensagemSinaisVitais)
    /\ session = SessaoVazia

\* the processar_resposta calls that find every question answered
ProcessarNoFim ==
    /\ TemConversa(1) /\ conversas_ativas[1].etapa >= Len(PERGUNTAS)
    /\ \E r \in RespostasNaEtapa(1) : Processar(1, r)

\* the next step of a call, with every reading and every ticket number
ContinuarSorteando(quadro) ==
    ContinuarCom(quadro, Leituras, NumerosSenha, MaxConsultas)

NextFinalizacao ==
    \/ ProcessarNoFim
    \/ \E quadro \in DOMAIN em_curso : ContinuarSorteando(quadro)

SpecFinalizacao == InitFinalizacao /\ [][NextFinalizacao]_vars

\* the prefix the mapping table gives a tier
TabelaPrefixo(nivel) ==
    CASE nivel = "URGENTE" -> "U"
      [] nivel = "ALTA" -> "A"
      [] nivel = "MEDIA" -> "M"
      [] nivel = "BAIXA" -> "B"
      [] OTHER -> "?"

SenhaConforme(nivel, senha) ==
    /\ nivel \in {"URGENTE", "ALTA", "MEDIA", "BAIXA"}
    /\ Len(senha) = 4
    /\ senha[1] = TabelaPrefixo(nivel)
    /\ \A i \in 2..4 : EhDigito(senha[i])
    /\ ValorDecimal(SubSeq(senha, 2, 4)) \in 1..999

\* C14: every row written at finalization carries a ticket made of the
\* prefix the table gives the row's tier and a 3-digit zero-padded number
\* in 1..999, and the summary returned with it names that tier and ticket.
C14_SenhaSeguePrioridade ==
    /\ \A i \in 1..Len(encounters) :
          SenhaConforme(encounters[i].prioridade, encounters[i].senha_chamada)
    /\ \A quadro \in DOMAIN em_curso :
          /\ quadro.senha # <<>>
             => SenhaConforme(quadro.prioridade, quadro.senha)
          /\ quadro.nova_consulta # Ausente
             => SenhaConforme(quadro.nova_consulta.prioridade,
                              quadro.nova_consulta.senha_chamada)
    /\ retorno.tipo = "resumo"
       => /\ \E i \in 1..Len(encounters) :
                /\ encounters[i].patient_id = chamada.paciente_id
                /\ retorno.valor.prioridade = encounters[i].prioridade
                /\ retorno.valor.senha = encounters[i].senha_chamada
          /\ SenhaConforme(retorno.valor.prioridade, retorno.valor.senha)

\* C14 witness: number 1 drawn for an urgent triage gives ticket U001
C14_Witness ==
    /\ Len(encounters) = 1
    /\ encounters[1].prioridade = "URGENTE"
    /\ encounters[1].senha_chamada = <<"U", "0", "0", "1">>
    /\ retorno.tipo = "resumo"

Max(a, b) == IF a >= b THEN a ELSE b

\* C15: the nivel_dor of every row written is in 0..10: 0 when the answer
\* to question 3 does not parse, the parsed value clamped into 0..10
\* otherwise.
C15_NivelDorDe0a10 ==
    [][\A quadro \in DOMAIN em_curso :
         (Passo(quadro) /\ quadro.linha = "L183")
         => \E novo \in DOMAIN em_curso' :
               /\ Segue(quadro, novo)
               /\ novo.nivel_dor \in 0..10
               /\ \A d \in {py_int(Get(Conversa(quadro).respostas, 3, <<>>))} :
                     novo.nivel_dor =
                        IF d.ok THEN Max(0, Min(10, d.val)) ELSE 0]_vars

(***************************************************************************)
(* The staff routes of app.py over the Encounter table, together with the  *)
(* triage calls that fill it.                                              *)
(***************************************************************************)
MaxFila == 2

ConsultaIds == 1..MaxFila

ordem_prioridade(prioridade) ==
    CASE prioridade = "URGENTE" -> 1
      [] prioridade = "ALTA" -> 2
      [] prioridade = "MEDIA" -> 3
      [] prioridade = "BAIXA" -> 4
      [] OTHER -> 5

\* the key of sorted(): (ordem_prioridade.get(x.prioridade, 5), x.data)
chave(x) == <<ordem_prioridade(x.prioridade), x.data>>

\* tuple comparison a < b
TuplaMenor(a, b) == a[1] < b[1] \/ (a[1] = b[1] /\ a[2] < b[2])

RECURSIVE Inserir(_, _)
Inserir(x, s) ==
    IF s = <<>> THEN <<x>>
    ELSE IF TuplaMenor(chave(x), chave(Head(s))) THEN <<x>> \o s
    ELSE <<Head(s)>> \o Inserir(x, Tail(s))

\* sorted(consultas, key=chave): stable, elements of equal key keep their order
RECURSIVE sorted(_)
sorted(s) ==
    IF s = <<>> THEN <<>>
    ELSE Inserir(s[Len(s)], sorted(SubSeq(s, 1, Len(s) - 1)))

\* Encounter.query.filter_by(status=...).all(): the rows with that status,
\* in whatever order the database returns them
filter_by_status(status) ==
    LET ids == { i \in 1..Len(encounters) : encounters[i].status = status }
        n == Cardinality(ids)
    IN { [k \in 1..n |-> encounters[f[k]]] :
            f \in { g \in [1..n -> ids] :
                      \A a, b \in 1..n : a # b => g[a] # g[b] } }

\* Python's None
None == [tipo |-> "None"]

Render(consultas) == [tipo |-> "render", valor |-> consultas]
Redirect == [tipo |-> "redirect", valor |-> "painel_atendimento"]

\* Each staff request runs on a thread of its own with a database session
\* of its own, and waits on the database where it queries and where it
\* commits; the other requests run meanwhile.  A step of a route is named
\* after the route and the line of app.py it begins at.
ChamadaEquipe(op, consulta_id) ==
    [op |-> op, paciente_id |-> 0, resposta |-> <<>>, consulta_id |-> consulta_id]

\* Encounter.query.get(consulta_id): the row as it is now, None without one
query_get(consulta_id) ==
    IF consulta_id \in 1..Len(encounters)
    THEN encounters[consulta_id]
    ELSE None

\* line 208: the query loads the rows that are waiting now
painel_atendimento_208(quadro, outros) ==
    \E consultas \in filter_by_status("aguardando") :
       Passa(outros, [quadro EXCEPT !.linha = "app.py:209",
                                    !.consultas = consultas])

\* variant of painel_atendimento_209: the rows are rendered as queried
painel_atendimento_209_sem_ordenar(quadro, outros) ==
    Termina(outros, Render(quadro.consultas))

\* lines 209-217: the rows loaded are sorted and rendered
painel_atendimento_209(quadro, outros) ==
    Termina(outros, Render(sorted(quadro.consultas)))

\* consulta = Encounter.query.get(consulta_id), lines 222 and 232
consultar(quadro, outros, proxima) ==
    Passa(outros, [quadro EXCEPT !.linha = proxima,
                                 !.consulta = query_get(quadro.chamada.consulta_id)])

\* if consulta: consulta.status = novo; db.session.commit().  The session
\* writes the status of the row when novo is not the status it loaded, over
\* whatever the row holds by then; a commit that fails raises.
atualizar_status(quadro, outros, novo, commit_ok, proxima) ==
    IF quadro.consulta = None
    THEN Termina(outros, Redirect)
    ELSE IF commit_ok
    THEN /\ encounters' =
               IF quadro.consulta.status = novo
               THEN encounters
               ELSE [encounters EXCEPT ![quadro.consulta.id].status = novo]
         /\ em_curso' = outros (+) Um([quadro EXCEPT !.linha = proxima])
         /\ retorno' = EmCurso
         /\ UNCHANGED <<conversas_ativas, session>>
    ELSE Termina(outros, Excecao("commit"))

chamar_paciente_222(quadro, outros) == consultar(quadro, outros, "app.py:223")

chamar_paciente_223(quadro, outros, commit_ok) ==
    atualizar_status(quadro, outros, "em_atendimento", commit_ok, "app.py:226")

\* lines 226-227: the commit expired consulta, so consulta.senha_chamada
\* loads the row again for the flash message; then the redirect
chamar_paciente_226(quadro, outros) ==
    /\ query_get(quadro.consulta.id) # None
    /\ Termina(outros, Redirect)

finalizar_atendimento_232(quadro, outros) == consultar(quadro, outros, "app.py:233")

finalizar_atendimento_233(quadro, outros, commit_ok) ==
    atualizar_status(quadro, outros, "finalizado", commit_ok, "app.py:236")

\* lines 236-237: the flash message and the redirect
finalizar_atendimento_236(quadro, outros) == Termina(outros, Redirect)

Painel ==
    /\ TomaThread
    /\ chamada' = ChamadaEquipe("painel_atendimento", 0)
    /\ linha' = "app.py:208"
    /\ painel_atendimento_208(Quadro(chamada', "app.py:208"), em_curso)

ChamarPaciente(consulta_id) ==
    /\ TomaThread
    /\ chamada' = ChamadaEquipe("chamar_paciente", consulta_id)
    /\ linha' = "app.py:222"
    /\ chamar_paciente_222(Quadro(chamada', "app.py:222"), em_curso)

FinalizarAtendimento(consulta_id) ==
    /\ TomaThread
    /\ chamada' = ChamadaEquipe("finalizar_atendimento", consulta_id)
    /\ linha' = "app.py:232"
    /\ finalizar_atendimento_232(Quadro(chamada', "app.py:232"), em_curso)

\* the next step of a staff request
ContinuarEquipe(quadro) ==
    /\ chamada' = quadro.chamada
    /\ linha' = quadro.linha
    /\ UNCHANGED sobrepostas
    /\ \E outros \in {em_curso (-) Um(quadro)} :
          \/ quadro.linha = "app.py:209" /\ painel_atendimento_209(quadro, outros)
          \/ /\ quadro.linha = "app.py:223"
             /\ \E commit_ok \in BOOLEAN :
                   chamar_paciente_223(quadro, outros, commit_ok)
          \/ quadro.linha = "app.py:226" /\ chamar_paciente_226(quadro, outros)
          \/ /\ quadro.linha = "app.py:233"
             /\ \E commit_ok \in BOOLEAN :
                   finalizar_atendimento_233(quadro, outros, commit_ok)
          \/ quadro.linha = "app.py:236" /\ finalizar_atendimento_236(quadro, outros)

\* the next step of a triage call, while the table holds fewer than MaxFila
\* rows
ContinuarNaClinica(quadro) ==
    ContinuarCom(quadro, LeiturasDeRotina, Numeros, MaxFila)

\* the triage calls that start, answer and reset a conversa and the requests
\* of the staff, in any interleaving of their steps; a row is written where
\* processar_resposta reaches finalizar_triagem
NextClinica ==
    \/ \E p \in Pacientes :
          \/ Iniciar(p)
          \/ \E r \in RespostasNaClinica(p) : Processar(p, r)
          \/ Resetar(p)
    \/ \E quadro \in DOMAIN em_curso : ContinuarNaClinica(quadro)
    \/ Painel
    \/ \E consulta_id \in ConsultaIds :
          \/ ChamarPaciente(consulta_id)
          \/ FinalizarAtendimento(consulta_id)
    \/ \E quadro \in DOMAIN em_curso : ContinuarEquipe(quadro)

SpecClinica == Init /\ [][NextClinica]_vars

\* C16: across every call, the status of a row changes only from aguardando
\* to em_atendimento or from em_atendimento to finalizado.
C16_CicloDeVidaDoStatus ==
    [][\A i \in 1..Len(encounters) :
         encounters'[i].status # encounters[i].status
         => <<encounters[i].status, encounters'[i].status>> \in
               { <<"aguardando", "em_atendimento">>,
                 <<"em_atendimento", "finalizado">> }]_vars

\* the call wrote its row (the commit of line 208 returned) for the conversa
\* that is conversas_ativas[paciente_id]
JaGravou(quadro) ==
    /\ quadro.linha \in {"L226", "L238"}
    /\ quadro.ligada

\* two calls in course have each written a row for the one conversa of a
\* patient
DuasGravacoes(em) ==
    \E a, b \in DOMAIN em :
       /\ JaGravou(a) /\ JaGravou(b)
       /\ a.chamada.paciente_id = b.chamada.paciente_id
       /\ a # b \/ em[a] >= 2

\* C17: no step of any call deletes a row or changes a field of a row other
\* than status, and status changes only in chamar_paciente and
\* finalizar_atendimento; a row is added only by the commit of a
\* finalization (line 208), one row, for the patient of the call and with
\* status aguardando, and never a second row for a conversa that already has
\* one; iniciar_conversa, resetar_conversa and the steps of
\* processar_resposta other than that commit add none.
C17_ConsultasSoNaFinalizacao ==
    [][/\ Len(encounters') \in {Len(encounters), Len(encounters) + 1}
       /\ \A i \in 1..Len(encounters) :
             /\ [encounters'[i] EXCEPT !.status = encounters[i].status]
                   = encounters[i]
             /\ encounters'[i].status # encounters[i].status
                => chamada'.op \in {"chamar_paciente", "finalizar_atendimento"}
       /\ Len(encounters') = Len(encounters) + 1
          => /\ chamada'.op \in {"processar_resposta", "finalizar_triagem"}
             /\ linha' = "L208"
             /\ encounters'[Len(encounters')].patient_id = chamada'.paciente_id
             /\ encounters'[Len(encounters')].status = "aguardando"
             /\ ~DuasGravacoes(em_curso')
       /\ chamada'.op \in {"iniciar_conversa", "resetar_conversa"}
          => encounters' = encounters
       /\ (chamada'.op = "processar_resposta" /\ linha' # "L208")
          => encounters' = encounters]_vars

\* the place of a tier in the order URGENTE, ALTA, MEDIA, BAIXA
TabelaOrdem(nivel) ==
    CASE nivel = "URGENTE" -> 1
      [] nivel = "ALTA" -> 2
      [] nivel = "MEDIA" -> 3
      [] nivel = "BAIXA" -> 4

\* the number of places of the list l that hold x
Vezes(x, l) == Cardinality({ k \in 1..Len(l) : l[k] = x })

\* C18: the rows painel_atendimento loads (line 208) are every row whose
\* status is aguardando at that moment, each once, and no other row; what it
\* renders is those rows, a row of a higher tier before every row of a lower
\* tier and, within a tier, the row created earlier first.
C18_PainelListaFilaOrdenada ==
    [][chamada'.op = "painel_atendimento"
       => /\ linha' = "app.py:208"
             => \E novo \in DOMAIN em_curso' :
                   /\ em_curso' = em_curso (+) Um(novo)
                   /\ novo.linha = "app.py:209"
                   /\ \A i \in 1..Len(encounters) :
                         Vezes(encounters[i], novo.consultas)
                            = IF encounters[i].status = "aguardando" THEN 1 ELSE 0
                   /\ \A k \in 1..Len(novo.consultas) :
                         \E i \in 1..Len(encounters) :
                            novo.consultas[k] = encounters[i]
          /\ linha' = "app.py:209"
             => \E quadro \in DOMAIN em_curso :
                   /\ quadro.linha = "app.py:209"
                   /\ em_curso' = em_curso (-) Um(quadro)
                   /\ retorno'.tipo = "render"
                   /\ LET l == retorno'.valor
                      IN /\ Len(l) = Len(quadro.consultas)
                         /\ \A k \in 1..Len(l) :
                               Vezes(l[k], l) = Vezes(l[k], quadro.consultas)
                         /\ \A j, k \in 1..Len(l) :
                               j < k =>
                                 \/ TabelaOrdem(l[j].prioridade)
                                       < TabelaOrdem(l[k].prioridade)
                                 \/ /\ l[j].prioridade = l[k].prioridade
                                    /\ l[j].data < l[k].data]_vars

\* C18 witness: the panel lists the urgent row written second before the
\* high-priority row written first, both waiting
C18_Witness ==
    /\ chamada.op = "painel_atendimento"
    /\ linha = "app.py:209"
    /\ retorno.tipo = "render"
    /\ Len(retorno.valor) = 2
    /\ retorno.valor[1].prioridade = "URGENTE" /\ retorno.valor[1].id = 2
    /\ retorno.valor[2].prioridade = "ALTA" /\ retorno.valor[2].id = 1

\* C19: a finalization whose commit returned ends by leaving the patient
\* without a conversa, with the row written; a conversa is removed by a
\* finalization only with its own row written, the row of the answers it
\* holds; and obter_historico for a patient without a conversa returns the
\* empty list.
C19_ConversaDescartadaAposGravar ==
    [][\A p \in TodosPacientes :
         /\ \A quadro \in DOMAIN em_curso :
               (Passo(quadro) /\ quadro.chamada.paciente_id = p
                  /\ quadro.linha = "L238")
               => /\ TemRow(quadro.nova_consulta)
                  /\ retorno'.tipo = "resumo"
                  /\ conversas_ativas'[p] = Ausente
                  /\ quadro.nova_consulta.sintomas =
                        join(<<"\n">>, conversas_ativas[p].sintomas_coletados)
         /\ (TemConversa(p) /\ conversas_ativas'[p] = Ausente
               /\ ~Serve("resetar_conversa", p))
            => linha' = "L238"
         /\ (Serve("obter_historico", p) /\ ~TemConversa(p))
            => retorno' = Lista(<<>>)]_vars

(***************************************************************************)
(* Two patients calling SistemaTriagem in any interleaving.                *)
(***************************************************************************)
\* the text the two patients submit
RespostasDeDois == { <<>> }

NextDois ==
    \/ \E p \in TodosPacientes :
          \/ Iniciar(p)
          \/ \E r \in RespostasDeDois : Processar(p, r)
          \/ Finalizar(p)
          \/ Historico(p)
          \/ Resetar(p)
    \/ \E quadro \in DOMAIN em_curso : Continuar(quadro)

SpecDois == Init /\ [][NextDois]_vars

\* the calls of patient q in course: what they hold of q's conversa
DoPaciente(q, em) ==
    [quadro \in { x \in DOMAIN em : x.chamada.paciente_id = q } |-> em[quadro]]

\* C20: every step of a call made for patient p leaves the conversa of every
\* other patient q (its existence, etapa, respostas, sintomas_coletados and
\* dados_vitais) as it was, in conversas_ativas and in the hands of the
\* calls of q that are in course.
C20_ConversasIndependentes ==
    [][\A p, q \in TodosPacientes :
         (chamada'.paciente_id = p /\ q # p)
         => /\ conversas_ativas'[q] = conversas_ativas[q]
            /\ DoPaciente(q, em_curso') = DoPaciente(q, em_curso)]_vars

\* C20 witness: patient 1 has just answered the last question while
\* patient 2 is in the middle of the questions
C20_Witness ==
    /\ chamada.op = "processar_resposta" /\ chamada.paciente_id = 1
    /\ linha = "L79"
    /\ \E quadro \in DOMAIN em_curso :
          quadro.chamada.paciente_id = 2 /\ quadro.linha = "L76"
    /\ TemConversa(1) /\ Etapa(1) = Len(PERGUNTAS)
    /\ TemConversa(2) /\ Etapa(2) = 2
    /\ conversas_ativas[2].sintomas_coletados = << <<>>, <<>>, <<>> >>

(***************************************************************************)
(* The routes of app.py that use the Flask session: login, logout,         *)
(* chat_triagem and resetar_triagem.  The session is the cookie of one     *)
(* browser, which sends its requests one after another, each with the      *)
(* cookie the response before it set.  login puts 'paciente_id' there      *)
(* (and 'paciente_nome', which these routes never read), chat_triagem      *)
(* keeps the conversa under 'conversa_triagem'; a key that is missing is   *)
(* Ausente.  The flash messages, which the routes also keep in the         *)
(* session, are left out.  iniciar_conversa_sessao,                        *)
(* processar_resposta_sessao and salvar_triagem are called by chat_triagem *)
(* and follow the specification's start, advance / finalize and Record     *)
(* Writer.                                                                 *)
(***************************************************************************)
Metodos == {"GET", "POST"}

\* request.form.get("mensagem", ""), before .strip(): nothing, white space
\* only (a space, a form feed and U+001C), and "9" within white space
Mensagens == { <<>>, <<" ", "\f", "">>, <<"\f", "9", " ">> }

\* what the login form identifies: the patient whose cpf and senha were
\* typed, 0 when they are those of no patient
Credenciais == TodosPacientes \cup {0}

RenderChat(resposta, historico) ==
    [tipo |-> "render", valor |-> [resposta |-> resposta, historico |-> historico]]
RenderLogin == [tipo |-> "render", valor |-> "login.html"]
RedirectLogin == [tipo |-> "redirect", valor |-> "login"]
RedirectChat == [tipo |-> "redirect", valor |-> "chat_triagem"]
RedirectIndex == [tipo |-> "redirect", valor |-> "index"]

\* "paciente_id" in session
Logado == "paciente_id" \in DOMAIN session

\* 'conversa_triagem' in s
TemConversaNaSessao(s) == "conversa_triagem" \in DOMAIN s

\* d.pop(k, None)
Pop(d, k) == [x \in (DOMAIN d) \ {k} |-> d[x]]

\* start: a fresh conversa at etapa 0 and the first question
iniciar_conversa_sessao ==
    [conversa |-> ConversaNova, resposta |-> Texto(PERGUNTAS[1].texto)]

\* session['conversa_triagem'].get('finalizado', False)
Finalizado(conversa) == Get(conversa, "finalizado", FALSE)

\* finalize: vitals, priority, ticket, finished = true and the summary,
\* all kept in the conversa for the caller to persist; the summary is also
\* what is answered
finalizar_sessao(paciente_id, conversa_atual, leitura, numero) ==
    LET conversa == [conversa_atual EXCEPT !.dados_vitais = leitura]
        pe == calcular_prioridade(conversa)
        senha == gerar_senha_chamada(pe.prioridade, numero)
        consulta == nova_consulta(paciente_id,
                                  join(<<"\n">>, conversa.sintomas_coletados),
                                  nivel_dor(conversa.respostas), leitura,
                                  pe.prioridade, senha)
        resumo == resposta_final(consulta, Queixa(conversa), pe.emoji)
    IN [conversa |->
           [etapa |-> conversa.etapa,
            respostas |-> conversa.respostas,
            sintomas_coletados |-> conversa.sintomas_coletados,
            dados_vitais |-> leitura,
            finalizado |-> TRUE,
            prioridade |-> pe.prioridade,
            senha_chamada |-> senha,
            resumo |-> resumo],
        resposta |-> Resumo(resumo)]

\* advance: the answer is saved while questions remain, etapa moves on, and
\* the call after the vital-signs message finalizes; a conversa already
\* finished is left as it is and its summary returned again
processar_resposta_sessao(paciente_id, conversa_atual, resposta, leitura, numero) ==
    IF Finalizado(conversa_atual)
    THEN [conversa |-> conversa_atual, resposta |-> Resumo(conversa_atual.resumo)]
    ELSE LET conversa ==
                 avancar(IF conversa_atual.etapa < Len(PERGUNTAS)
                         THEN salvar(conversa_atual, conversa_atual.etapa,
                                     resposta)
                         ELSE conversa_atual)
         IN IF conversa.etapa < Len(PERGUNTAS)
            THEN [conversa |-> conversa,
                  resposta |-> Texto(PERGUNTAS[conversa.etapa + 1].texto)]
            ELSE IF conversa.etapa = Len(PERGUNTAS)
            THEN [conversa |-> conversa, resposta |-> Texto(MensagemSinaisVitais)]
            ELSE finalizar_sessao(paciente_id, conversa, leitura, numero)

\* Record Writer: the row built from the finished conversa
salvar_triagem(paciente_id, conversa) ==
    Inserida(nova_consulta(paciente_id,
                           join(<<"\n">>, conversa.sintomas_coletados),
                           nivel_dor(conversa.respostas), conversa.dados_vitais,
                           conversa.prioridade, conversa.senha_chamada))

\* the conversa the route works on: the one in the session, or the one
\* it puts there when the key is missing
ConversaDaSessao ==
    IF TemConversaNaSessao(session)
    THEN session["conversa_triagem"]
    ELSE ConversaNova

\* login, app.py:55-72: a POST whose cpf and senha are those of a patient
\* puts that patient in the session and leaves the other keys as they are;
\* any other request changes nothing
login(metodo, credencial) ==
    /\ IF metodo = "POST" /\ credencial # 0
       THEN /\ session' = Put(session, "paciente_id", credencial)
            /\ retorno' = RedirectChat
       ELSE /\ session' = session
            /\ retorno' = RenderLogin
    /\ UNCHANGED <<conversas_ativas, encounters, em_curso, sobrepostas>>

\* logout, app.py:239-244: session.clear()
logout ==
    /\ session' = SessaoVazia
    /\ retorno' = RedirectIndex
    /\ UNCHANGED <<conversas_ativas, encounters, em_curso, sobrepostas>>

\* the POST branch for a message that is not empty after strip()
chat_triagem_post(paciente_id, mensagem, leitura, numero, commit_ok) ==
    \E antes \in {ConversaDaSessao} :
    \E r \in {processar_resposta_sessao(paciente_id, antes, mensagem, leitura, numero)} :
    \E historico \in {r.conversa.sintomas_coletados} :
       /\ UNCHANGED <<conversas_ativas, em_curso, sobrepostas>>
       /\ IF Finalizado(r.conversa)
          THEN IF commit_ok
               THEN /\ encounters' =
                          Append(encounters, salvar_triagem(paciente_id, r.conversa))
                    /\ session' = Pop(session, "conversa_triagem")
                    /\ retorno' = RenderChat(r.resposta, historico)
               ELSE /\ encounters' = encounters
                    /\ session' = Put(session, "conversa_triagem", r.conversa)
                    /\ retorno' = Excecao("commit")
          ELSE /\ encounters' = encounters
               /\ session' = Put(session, "conversa_triagem", r.conversa)
               /\ retorno' = RenderChat(r.resposta, historico)

\* the route with the conversa already in the session and nothing else done
chat_triagem_sem_processar(resposta, historico) ==
    /\ session' = Put(session, "conversa_triagem", ConversaDaSessao)
    /\ retorno' = RenderChat(resposta, historico)
    /\ UNCHANGED <<conversas_ativas, encounters, em_curso, sobrepostas>>

\* the GET branch
chat_triagem_get ==
    LET antes == ConversaDaSessao
        historico == antes.sintomas_coletados
    IN IF antes.etapa = 0 /\ historico = <<>>
       THEN /\ session' = Put(session, "conversa_triagem",
                               iniciar_conversa_sessao.conversa)
            /\ retorno' = RenderChat(iniciar_conversa_sessao.resposta, historico)
            /\ UNCHANGED <<conversas_ativas, encounters, em_curso, sobrepostas>>
       ELSE chat_triagem_sem_processar(None, historico)

\* variant of chat_triagem: the message is processed without the test
\* that it is not empty
chat_triagem_sem_teste(metodo, bruta, leitura, numero, commit_ok) ==
    IF ~Logado
    THEN /\ retorno' = RedirectLogin
         /\ UNCHANGED <<conversas_ativas, encounters, em_curso, sobrepostas,
                        session>>
    ELSE IF metodo = "POST"
    THEN chat_triagem_post(session["paciente_id"], strip(bruta), leitura, numero,
                           commit_ok)
    ELSE chat_triagem_get

\* chat_triagem, app.py:115-169, for the patient of the session
chat_triagem(metodo, bruta, leitura, numero, commit_ok) ==
    IF ~Logado
    THEN /\ retorno' = RedirectLogin
         /\ UNCHANGED <<conversas_ativas, encounters, em_curso, sobrepostas,
                        session>>
    ELSE IF metodo = "POST"
    THEN LET mensagem == strip(bruta)
         IN IF mensagem # <<>>
            THEN chat_triagem_post(session["paciente_id"], mensagem, leitura,
                                   numero, commit_ok)
            ELSE chat_triagem_sem_processar(None, <<>>)
    ELSE chat_triagem_get

\* resetar_triagem, app.py:171-178
resetar_triagem ==
    /\ session' =
          IF Logado
          THEN Pop(session, "conversa_triagem")
          ELSE session
    /\ retorno' = RedirectChat
    /\ UNCHANGED <<conversas_ativas, encounters, em_curso, sobrepostas>>

\* a request of the browser; paciente_id is the patient of the session, or
\* the one the login form identifies, 0 without one
ChamadaWeb(op, p, metodo, bruta) ==
    [op |-> op, paciente_id |-> p, resposta |-> bruta, metodo |-> metodo]

PacienteDaSessao == Get(session, "paciente_id", 0)

\* whether a POST of a non-empty message would reach salvar_triagem
VaiSalvar ==
    /\ Logado
    /\ TemConversaNaSessao(session)
    /\ \/ Finalizado(session["conversa_triagem"])
       \/ session["conversa_triagem"].etapa >= Len(PERGUNTAS)

Login(metodo, credencial) ==
    /\ chamada' = ChamadaWeb("login", credencial, metodo, <<>>)
    /\ linha' = "app.py:56"
    /\ login(metodo, credencial)

Logout ==
    /\ chamada' = ChamadaWeb("logout", PacienteDaSessao, "GET", <<>>)
    /\ linha' = "app.py:240"
    /\ logout

ChatTriagem(metodo, bruta) ==
    /\ chamada' = ChamadaWeb("chat_triagem", PacienteDaSessao, metodo, bruta)
    /\ linha' = "app.py:116"
    /\ \E leitura \in coletar_sinais_vitais(Leituras),
          numero \in Numeros, commit_ok \in BOOLEAN :
          /\ (VaiSalvar /\ commit_ok) => Len(encounters) < MaxConsultas
          /\ chat_triagem(metodo, bruta, leitura, numero, commit_ok)

ResetarTriagem ==
    /\ chamada' = ChamadaWeb("resetar_triagem", PacienteDaSessao, "GET", <<>>)
    /\ linha' = "app.py:172"
    /\ resetar_triagem

NextChat ==
    \/ \E metodo \in Metodos, credencial \in Credenciais : Login(metodo, credencial)
    \/ Logout
    \/ \E metodo \in Metodos, bruta \in Mensagens : ChatTriagem(metodo, bruta)
    \/ ResetarTriagem

SpecChat == Init /\ [][NextChat]_vars

\* the step finalized the conversa of the session: it left it finished with
\* its vitals, or wrote its row
FinalizouNaSessao ==
    \/ encounters' # encounters
    \/ /\ TemConversaNaSessao(session')
       /\ Finalizado(session'["conversa_triagem"])
       /\ ~(TemConversaNaSessao(session)
              /\ Finalizado(session["conversa_triagem"]))
    \/ /\ TemConversaNaSessao(session')
       /\ TemConversaNaSessao(session)
       /\ session'["conversa_triagem"].dados_vitais
             # session["conversa_triagem"].dados_vitais

\* C21: a POST to chat_triagem whose message is empty after strip() leaves
\* the conversa of the session as it was (etapa, respostas,
\* sintomas_coletados, dados_vitais; a session without one gets the fresh
\* conversa at etapa 0; a request without login is redirected and changes
\* nothing), collects no vitals, writes no row and renders no answer, at
\* every etapa, the vital-signs pause included, whoever is logged in; so
\* the vitals are collected and a row is written only by a POST whose
\* message is not empty, never by login, logout, resetar_triagem or a GET.
C21_MensagemVaziaNaoAvanca ==
    [][/\ (chamada'.op = "chat_triagem" /\ chamada'.metodo = "POST"
             /\ strip(chamada'.resposta) = <<>>)
          => /\ encounters' = encounters
             /\ Pop(session', "conversa_triagem") = Pop(session, "conversa_triagem")
             /\ IF Logado
                THEN /\ retorno' = RenderChat(None, <<>>)
                     /\ TemConversaNaSessao(session')
                     /\ session'["conversa_triagem"] = ConversaDaSessao
                ELSE /\ retorno' = RedirectLogin
                     /\ session' = session
       /\ FinalizouNaSessao
          => /\ chamada'.op = "chat_triagem"
             /\ chamada'.metodo = "POST"
             /\ strip(chamada'.resposta) # <<>>
             /\ Logado]_vars

\* C21 witness: a POST of a message made of a space, a form feed and
\* U+001C, which strip() empties, has just been served at the vital-signs
\* pause, and the conversa is still in the session with its four answers
C21_Witness ==
    /\ chamada = ChamadaWeb("chat_triagem", 1, "POST", <<" ", "\f", "">>)
    /\ retorno = RenderChat(None, <<>>)
    /\ Logado /\ session["paciente_id"] = 1
    /\ TemConversaNaSessao(session)
    /\ session["conversa_triagem"].etapa = Len(PERGUNTAS)
    /\ ~TemVitais(session["conversa_triagem"])
    /\ Len(session["conversa_triagem"].sintomas_coletados) = Len(PERGUNTAS)
    /\ encounters = <<>>
====
